---------------------------- MODULE Spec2Model ----------------------------
(***************************************************************************)
(* ArcadeManager: a credit ledger over an external ERC20-style token.      *)
(*                                                                         *)
(* The contract (contracts/ArcadeManager.sol) is modelled as a state       *)
(* machine over its storage (userCredits, bullToken, _owner, _status), the *)
(* token's balances, and the event log.  A transaction that calls out to   *)
(* the token is split at the external call: while the call is in progress  *)
(* (frame /= NoFrame) the token may move the asset and may call back into  *)
(* the contract; when it returns the outer function continues or the whole *)
(* transaction reverts to the snapshot taken when it began.                *)
(***************************************************************************)
EXTENDS Integers, Sequences, FiniteSets, TLC

\* ------------------------------------------------------------------ bounds
MaxTokens == 2      \* tokens each account holds at deployment
MaxOps == 2         \* state-changing calls taken after construction
MaxAttempts == 2    \* rejected nested calls counted inside one external call
UintWidth == 10     \* width of the contract's unsigned integers in the model

\* --------------------------------------------------------------- constants
CREDIT_RATE == 100

MAX_UINT == 2^UintWidth - 1

NULL == "0x0"                    \* address(0)
THIS == "arcade"                 \* address(this)
TOKEN == "bull"                  \* the token contract's address
Addr == {"a1", "a2"}             \* externally owned accounts and callers
Account == Addr \cup {NULL}      \* every address a call may name
Holder == Addr \cup {THIS}       \* token holders

\* ReentrancyGuard's two status values
NOT_ENTERED == "Idle"
ENTERED == "Locked"

NoFrame == [op |-> "none"]

TokenAmounts == 0 .. MaxTokens
\* credit amounts awarded: none, or one token's worth and a half
AwardAmounts == {0, CREDIT_RATE + CREDIT_RATE \div 2}
\* credit amounts tried: none, below one token, one token, one and a half,
\* and all the tokens an account holds at deployment
CreditAmounts == {0, CREDIT_RATE \div 2, CREDIT_RATE,
                  CREDIT_RATE + CREDIT_RATE \div 2, MaxTokens * CREDIT_RATE}

VARIABLES
    deployed,      \* whether the constructor succeeded
    bullToken,     \* the token reference set by the constructor
    userCredits,   \* mapping(address => uint256)
    _owner,        \* Ownable's owner
    _status,       \* ReentrancyGuard's status
    tokenBal,      \* the token's balanceOf, per holder
    events,        \* the log of emitted events
    frame,         \* the transaction suspended at its external call, or NoFrame
    result,        \* the call that returned in the last step, if one did
    before,        \* the state in which the last returned call was made
    prev           \* the state before the last successful top-level transaction

vars == <<deployed, bullToken, userCredits, _owner, _status, tokenBal, events,
          frame, result, before, prev>>

\* The part of the state a revert restores and an observer can see.
Snap == [userCredits |-> userCredits, _owner |-> _owner, tokenBal |-> tokenBal,
         events |-> events]

\* What a returned call shows: the function, the caller, whether it was made
\* inside an external call, "ok" or the error it reverted with, and how many
\* nested calls the guard rejected while it was suspended.
Res(op, sender, outcome) ==
    [op |-> op, sender |-> sender, outcome |-> outcome,
     nested |-> (frame /= NoFrame), rejected |-> 0]

NoResult == [op |-> "none", sender |-> NULL, outcome |-> "none",
             nested |-> FALSE, rejected |-> 0]

\* ------------------------------------------------------------ construction
\* (mutant: the token address is checked but not stored)
constructor_tokenNotStored(_bullToken, deployer) ==
    /\ deployed = (_bullToken /= NULL)
    /\ bullToken = NULL
    /\ userCredits = [a \in Account |-> 0]
    /\ _owner = IF _bullToken /= NULL THEN deployer ELSE NULL
    /\ _status = NOT_ENTERED
    /\ events = IF _bullToken /= NULL
                THEN <<(<<"OwnershipTransferred", NULL, deployer>>)>>
                ELSE <<>>
    /\ frame = NoFrame
    /\ result = Res("constructor", deployer,
                    IF _bullToken /= NULL THEN "ok" ELSE "InvalidAddress")

\* (mutant: the token address is not checked)
constructor_noNullCheck(_bullToken, deployer) ==
    /\ deployed = TRUE
    /\ bullToken = _bullToken
    /\ userCredits = [a \in Account |-> 0]
    /\ _owner = deployer
    /\ _status = NOT_ENTERED
    /\ events = <<(<<"OwnershipTransferred", NULL, deployer>>)>>
    /\ frame = NoFrame
    /\ result = Res("constructor", deployer, "ok")

\* constructor(address _bullToken), after Ownable's and ReentrancyGuard's:
\* Ownable sets the deployer as owner and emits OwnershipTransferred, the
\* guard starts NOT_ENTERED, and a zero token address reverts the deployment.
constructor(_bullToken, deployer) ==
    /\ deployed = (_bullToken /= NULL)
    /\ bullToken = IF _bullToken /= NULL THEN _bullToken ELSE NULL
    /\ userCredits = [a \in Account |-> 0]
    /\ _owner = IF _bullToken /= NULL THEN deployer ELSE NULL
    /\ _status = NOT_ENTERED
    /\ events = IF _bullToken /= NULL
                THEN <<(<<"OwnershipTransferred", NULL, deployer>>)>>
                ELSE <<>>
    /\ frame = NoFrame
    /\ result = Res("constructor", deployer,
                    IF _bullToken /= NULL THEN "ok" ELSE "InvalidAddress")

\* The deployment is the first call: it is made where there is no contract
\* yet, the accounts holding their tokens.
Init ==
    /\ \E _bullToken \in {NULL, TOKEN} : constructor(_bullToken, "a1")
    /\ tokenBal = [h \in Holder |-> IF h = THIS THEN 0 ELSE MaxTokens]
    /\ before = [userCredits |-> [a \in Account |-> 0], _owner |-> NULL,
                 tokenBal |-> tokenBal, events |-> <<>>]
    /\ prev = Snap

\* (mutant: a call the guard rejects leaves the guard released)
Fail_releasesGuard(op, sender, err) ==
    /\ result' = Res(op, sender, err)
    /\ frame' = IF frame /= NoFrame /\ err = "ReentrancyDetected"
                THEN [frame EXCEPT !.rejected = @ + 1]
                ELSE frame
    /\ before' = Snap
    /\ _status' = IF err = "ReentrancyDetected" THEN NOT_ENTERED ELSE _status
    /\ UNCHANGED <<deployed, bullToken, userCredits, _owner,
                   tokenBal, events, prev>>

\* ------------------------------------------------------- call bookkeeping
\* A call that reverts: nothing it wrote stays, only its outcome is seen.
\* Inside an external call the revert undoes the nested call alone.
Fail(op, sender, err) ==
    /\ result' = Res(op, sender, err)
    /\ frame' = IF frame /= NoFrame /\ err = "ReentrancyDetected"
                THEN [frame EXCEPT !.rejected = @ + 1]
                ELSE frame
    /\ before' = Snap
    /\ UNCHANGED <<deployed, bullToken, userCredits, _owner, _status,
                   tokenBal, events, prev>>

\* A call without an external call that succeeds, after its writes.
Done(op, sender) ==
    /\ result' = Res(op, sender, "ok")
    /\ before' = Snap
    /\ prev' = IF frame = NoFrame THEN Snap ELSE prev
    /\ UNCHANGED frame

\* (mutant: the failure is reported but the debit and credits stay)
Revert_keepsCredits(err) ==
    /\ _owner' = frame.pre._owner
    /\ tokenBal' = frame.pre.tokenBal
    /\ events' = frame.pre.events
    /\ _status' = NOT_ENTERED
    /\ result' = [op |-> frame.op, sender |-> frame.sender, outcome |-> err,
                  nested |-> FALSE, rejected |-> frame.rejected]
    /\ frame' = NoFrame
    /\ before' = frame.pre
    /\ UNCHANGED <<deployed, bullToken, prev, userCredits>>

\* (mutant: the failure is reported but the tokens already moved stay moved)
Revert_keepsTransfer(err) ==
    /\ userCredits' = frame.pre.userCredits
    /\ _owner' = frame.pre._owner
    /\ events' = frame.pre.events
    /\ _status' = NOT_ENTERED
    /\ result' = [op |-> frame.op, sender |-> frame.sender, outcome |-> err,
                  nested |-> FALSE, rejected |-> frame.rejected]
    /\ frame' = NoFrame
    /\ before' = frame.pre
    /\ UNCHANGED <<deployed, bullToken, prev, tokenBal>>

\* (mutant: the guard is not released when the transaction aborts)
Revert_keepsLock(err) ==
    /\ userCredits' = frame.pre.userCredits
    /\ _owner' = frame.pre._owner
    /\ tokenBal' = frame.pre.tokenBal
    /\ events' = frame.pre.events
    /\ result' = [op |-> frame.op, sender |-> frame.sender, outcome |-> err,
                  nested |-> FALSE, rejected |-> frame.rejected]
    /\ frame' = NoFrame
    /\ before' = frame.pre
    /\ UNCHANGED <<deployed, bullToken, prev, _status>>

\* The transaction suspended at its external call reverts as a whole.
Revert(err) ==
    /\ userCredits' = frame.pre.userCredits
    /\ _owner' = frame.pre._owner
    /\ tokenBal' = frame.pre.tokenBal
    /\ events' = frame.pre.events
    /\ _status' = NOT_ENTERED
    /\ result' = [op |-> frame.op, sender |-> frame.sender, outcome |-> err,
                  nested |-> FALSE, rejected |-> frame.rejected]
    /\ frame' = NoFrame
    /\ before' = frame.pre
    /\ UNCHANGED <<deployed, bullToken, prev>>

\* (mutant: the guard is not released at the end of the function)
Return_keepsLock ==
    /\ result' = [op |-> frame.op, sender |-> frame.sender, outcome |-> "ok",
                  nested |-> FALSE, rejected |-> frame.rejected]
    /\ frame' = NoFrame
    /\ before' = frame.pre
    /\ prev' = frame.pre
    /\ UNCHANGED _status

\* The suspended transaction runs to its end.
Return ==
    /\ _status' = NOT_ENTERED
    /\ result' = [op |-> frame.op, sender |-> frame.sender, outcome |-> "ok",
                  nested |-> FALSE, rejected |-> frame.rejected]
    /\ frame' = NoFrame
    /\ before' = frame.pre
    /\ prev' = frame.pre

\* The outer function calls the token: the transaction is suspended, and no
\* call has returned.
CallOut(op, sender, amount, tokens) ==
    /\ frame' = [op |-> op, sender |-> sender, amount |-> amount,
                 tokens |-> tokens, pre |-> Snap, moved |-> FALSE,
                 rejected |-> 0]
    /\ result' = NoResult

\* modifier nonReentrant: the check made on entry.
nonReentrant == _status /= ENTERED

\* (mutant: the modifier lets every caller through)
onlyOwner_anyone(sender) == sender \in Addr

\* modifier onlyOwner
onlyOwner(sender) == sender = _owner

\* ---------------------------------------------------------------- deposit
\* (mutant: the rate added instead of multiplied)
depositCredits_rateAdded(bullAmount) == bullAmount + CREDIT_RATE

\* (mutant: one credit too many for a deposit)
depositCredits_extraCredit(bullAmount) == bullAmount * CREDIT_RATE + 1

depositCredits(bullAmount) == bullAmount * CREDIT_RATE

\* (mutant: the amount is checked before the guard)
depositError_amountFirst(sender, bullAmount) ==
    IF ~(bullAmount > 0) THEN "InvalidAmount"
    ELSE IF ~nonReentrant THEN "ReentrancyDetected"
    ELSE "ok"

\* The checks deposit makes before it calls the token, in order.
depositError(sender, bullAmount) ==
    IF ~nonReentrant THEN "ReentrancyDetected"
    ELSE IF ~(bullAmount > 0) THEN "InvalidAmount"
    ELSE "ok"

\* (mutant: the credit is applied before the token is called)
deposit_creditsBeforeCall(sender, bullAmount) ==
    IF depositError(sender, bullAmount) /= "ok"
    THEN Fail("deposit", sender, depositError(sender, bullAmount))
    ELSE /\ _status' = ENTERED
         /\ userCredits' = [userCredits EXCEPT
                              ![sender] = @ + depositCredits(bullAmount)]
         /\ CallOut("deposit", sender, bullAmount, bullAmount)
         /\ UNCHANGED <<deployed, bullToken, _owner, tokenBal, events,
                        before, prev>>

deposit(sender, bullAmount) ==
    IF depositError(sender, bullAmount) /= "ok"
    THEN Fail("deposit", sender, depositError(sender, bullAmount))
    ELSE /\ _status' = ENTERED
         /\ CallOut("deposit", sender, bullAmount, bullAmount)
         /\ UNCHANGED <<deployed, bullToken, userCredits, _owner, tokenBal,
                        events, before, prev>>

\* (mutant: the value transferFrom returns is ignored)
depositReturn_ignoresResult(ok) ==
    /\ frame /= NoFrame
    /\ frame.op = "deposit"
    /\ ok => frame.moved
    /\ LET sender == frame.sender
           creditAmount == depositCredits(frame.amount)
       IN  IF creditAmount > MAX_UINT
              \/ userCredits[sender] + creditAmount > MAX_UINT
           THEN Revert("Panic")
           ELSE /\ userCredits' = [userCredits EXCEPT
                                     ![sender] = @ + creditAmount]
                /\ events' = Append(events,
                        <<"Deposit", sender, frame.amount, creditAmount>>)
                /\ Return
                /\ UNCHANGED <<deployed, bullToken, _owner, tokenBal>>

\* (mutant: unchecked arithmetic, the sum is stored modulo 2^UintWidth)
depositReturn_wraps(ok) ==
    /\ frame /= NoFrame
    /\ frame.op = "deposit"
    /\ ok => frame.moved
    /\ LET sender == frame.sender
           creditAmount == depositCredits(frame.amount) % (MAX_UINT + 1)
       IN  IF ~ok
           THEN Revert("TransferFailed")
           ELSE /\ userCredits' = [userCredits EXCEPT
                       ![sender] = (@ + creditAmount) % (MAX_UINT + 1)]
                /\ events' = Append(events,
                        <<"Deposit", sender, frame.amount, creditAmount>>)
                /\ Return
                /\ UNCHANGED <<deployed, bullToken, _owner, tokenBal>>

\* (mutant: the balance read before the external call is written back)
depositReturn_overwrites(ok) ==
    /\ frame /= NoFrame
    /\ frame.op = "deposit"
    /\ ok => frame.moved
    /\ LET sender == frame.sender
           creditAmount == depositCredits(frame.amount)
       IN  IF ~ok
           THEN Revert("TransferFailed")
           ELSE IF creditAmount > MAX_UINT
                   \/ userCredits[sender] + creditAmount > MAX_UINT
           THEN Revert("Panic")
           ELSE /\ userCredits' = [userCredits EXCEPT ![sender] =
                        frame.pre.userCredits[sender] + creditAmount]
                /\ events' = Append(events,
                        <<"Deposit", sender, frame.amount, creditAmount>>)
                /\ Return
                /\ UNCHANGED <<deployed, bullToken, _owner, tokenBal>>

\* bullToken.transferFrom returned `ok`; the rest of deposit runs.
depositReturn(ok) ==
    /\ frame /= NoFrame
    /\ frame.op = "deposit"
    /\ ok => frame.moved
    /\ LET sender == frame.sender
           creditAmount == depositCredits(frame.amount)
       IN  IF ~ok
           THEN Revert("TransferFailed")
           ELSE IF creditAmount > MAX_UINT
                   \/ userCredits[sender] + creditAmount > MAX_UINT
           THEN Revert("Panic")
           ELSE /\ userCredits' = [userCredits EXCEPT
                                     ![sender] = @ + creditAmount]
                /\ events' = Append(events,
                        <<"Deposit", sender, frame.amount, creditAmount>>)
                /\ Return
                /\ UNCHANGED <<deployed, bullToken, _owner, tokenBal>>

\* ----------------------------------------------------------- spendCredits
\* (mutant: the balance is not checked)
spendCreditsError_noBalanceCheck(sender, amount) ==
    IF ~nonReentrant THEN "ReentrancyDetected"
    ELSE IF ~(amount > 0) THEN "InvalidAmount"
    ELSE "ok"

\* (mutant: spendCredits is left without the guard)
spendCreditsError_unguarded(sender, amount) ==
    IF ~(amount > 0) THEN "InvalidAmount"
    ELSE IF ~(userCredits[sender] >= amount) THEN "InsufficientCredits"
    ELSE "ok"

spendCreditsError(sender, amount) ==
    IF ~nonReentrant THEN "ReentrancyDetected"
    ELSE IF ~(amount > 0) THEN "InvalidAmount"
    ELSE IF ~(userCredits[sender] >= amount) THEN "InsufficientCredits"
    ELSE "ok"

\* (mutant: the amount is added to the balance)
spendCredits_creditsInstead(sender, amount) ==
    IF spendCreditsError(sender, amount) /= "ok"
    THEN Fail("spendCredits", sender, spendCreditsError(sender, amount))
    ELSE /\ userCredits' = [userCredits EXCEPT ![sender] = @ + amount]
         /\ events' = Append(events, <<"CreditsSpent", sender, amount>>)
         /\ Done("spendCredits", sender)
         /\ UNCHANGED <<deployed, bullToken, _owner, _status, tokenBal>>

spendCredits(sender, amount) ==
    IF spendCreditsError(sender, amount) /= "ok"
    THEN Fail("spendCredits", sender, spendCreditsError(sender, amount))
    ELSE /\ userCredits' = [userCredits EXCEPT ![sender] = @ - amount]
         /\ events' = Append(events, <<"CreditsSpent", sender, amount>>)
         /\ Done("spendCredits", sender)
         /\ UNCHANGED <<deployed, bullToken, _owner, _status, tokenBal>>

\* ---------------------------------------------------------- awardWinnings
\* (mutant: the amount is checked before the player)
awardWinningsError_amountFirst(sender, player, amount) ==
    IF ~onlyOwner(sender) THEN "AccessDenied"
    ELSE IF ~(amount > 0) THEN "InvalidAmount"
    ELSE IF ~(player /= NULL) THEN "InvalidAddress"
    ELSE IF userCredits[player] + amount > MAX_UINT THEN "Panic"
    ELSE "ok"

\* (mutant: awardWinnings carries the nonReentrant modifier)
awardWinningsError_guarded(sender, player, amount) ==
    IF ~onlyOwner(sender) THEN "AccessDenied"
    ELSE IF ~nonReentrant THEN "ReentrancyDetected"
    ELSE IF ~(player /= NULL) THEN "InvalidAddress"
    ELSE IF ~(amount > 0) THEN "InvalidAmount"
    ELSE IF userCredits[player] + amount > MAX_UINT THEN "Panic"
    ELSE "ok"

awardWinningsError(sender, player, amount) ==
    IF ~onlyOwner(sender) THEN "AccessDenied"
    ELSE IF ~(player /= NULL) THEN "InvalidAddress"
    ELSE IF ~(amount > 0) THEN "InvalidAmount"
    ELSE IF userCredits[player] + amount > MAX_UINT THEN "Panic"
    ELSE "ok"

\* (mutant: the event names the caller instead of the player)
awardWinnings_logsSender(sender, player, amount) ==
    IF awardWinningsError(sender, player, amount) /= "ok"
    THEN Fail("awardWinnings", sender,
              awardWinningsError(sender, player, amount))
    ELSE /\ userCredits' = [userCredits EXCEPT ![player] = @ + amount]
         /\ events' = Append(events, <<"WinningsAwarded", sender, amount>>)
         /\ Done("awardWinnings", sender)
         /\ UNCHANGED <<deployed, bullToken, _owner, _status, tokenBal>>

\* (mutant: the event is emitted twice)
awardWinnings_emitsTwice(sender, player, amount) ==
    IF awardWinningsError(sender, player, amount) /= "ok"
    THEN Fail("awardWinnings", sender,
              awardWinningsError(sender, player, amount))
    ELSE /\ userCredits' = [userCredits EXCEPT ![player] = @ + amount]
         /\ events' = Append(Append(events,
                                    <<"WinningsAwarded", player, amount>>),
                             <<"WinningsAwarded", player, amount>>)
         /\ Done("awardWinnings", sender)
         /\ UNCHANGED <<deployed, bullToken, _owner, _status, tokenBal>>

\* (mutant: the caller is credited instead of the player)
awardWinnings_creditsSender(sender, player, amount) ==
    IF awardWinningsError(sender, player, amount) /= "ok"
    THEN Fail("awardWinnings", sender,
              awardWinningsError(sender, player, amount))
    ELSE /\ userCredits' = [userCredits EXCEPT ![sender] = @ + amount]
         /\ events' = Append(events, <<"WinningsAwarded", player, amount>>)
         /\ Done("awardWinnings", sender)
         /\ UNCHANGED <<deployed, bullToken, _owner, _status, tokenBal>>

awardWinnings(sender, player, amount) ==
    IF awardWinningsError(sender, player, amount) /= "ok"
    THEN Fail("awardWinnings", sender,
              awardWinningsError(sender, player, amount))
    ELSE /\ userCredits' = [userCredits EXCEPT ![player] = @ + amount]
         /\ events' = Append(events, <<"WinningsAwarded", player, amount>>)
         /\ Done("awardWinnings", sender)
         /\ UNCHANGED <<deployed, bullToken, _owner, _status, tokenBal>>

\* --------------------------------------------------------------- withdraw
\* (mutant: the division rounds up)
withdrawTokens_roundsUp(creditAmount) ==
    (creditAmount + CREDIT_RATE - 1) \div CREDIT_RATE

\* (mutant: an exact multiple of the rate pays one token less)
withdrawTokens_oneShort(creditAmount) == (creditAmount - 1) \div CREDIT_RATE

withdrawTokens(creditAmount) == creditAmount \div CREDIT_RATE

\* bullToken.balanceOf(address(this))
custody == tokenBal[THIS]

\* (mutant: the contract's token balance is checked before the caller's)
withdrawError_reserveFirst(sender, creditAmount) ==
    IF ~nonReentrant THEN "ReentrancyDetected"
    ELSE IF ~(creditAmount > 0) THEN "InvalidAmount"
    ELSE IF ~(custody >= withdrawTokens(creditAmount))
    THEN "InsufficientReserve"
    ELSE IF ~(userCredits[sender] >= creditAmount) THEN "InsufficientCredits"
    ELSE IF ~(withdrawTokens(creditAmount) > 0) THEN "TooSmall"
    ELSE "ok"

\* (mutant: the arguments are checked before the guard)
withdrawError_guardLast(sender, creditAmount) ==
    IF ~(creditAmount > 0) THEN "InvalidAmount"
    ELSE IF ~(userCredits[sender] >= creditAmount) THEN "InsufficientCredits"
    ELSE IF ~(withdrawTokens(creditAmount) > 0) THEN "TooSmall"
    ELSE IF ~(custody >= withdrawTokens(creditAmount))
    THEN "InsufficientReserve"
    ELSE IF ~nonReentrant THEN "ReentrancyDetected"
    ELSE "ok"

\* (mutant: the contract's token balance is not checked)
withdrawError_noReserveCheck(sender, creditAmount) ==
    IF ~nonReentrant THEN "ReentrancyDetected"
    ELSE IF ~(creditAmount > 0) THEN "InvalidAmount"
    ELSE IF ~(userCredits[sender] >= creditAmount) THEN "InsufficientCredits"
    ELSE IF ~(withdrawTokens(creditAmount) > 0) THEN "TooSmall"
    ELSE "ok"

\* (mutant: the token amount is checked before the balance)
withdrawError_tooSmallFirst(sender, creditAmount) ==
    IF ~nonReentrant THEN "ReentrancyDetected"
    ELSE IF ~(creditAmount > 0) THEN "InvalidAmount"
    ELSE IF ~(withdrawTokens(creditAmount) > 0) THEN "TooSmall"
    ELSE IF ~(userCredits[sender] >= creditAmount) THEN "InsufficientCredits"
    ELSE IF ~(custody >= withdrawTokens(creditAmount))
    THEN "InsufficientReserve"
    ELSE "ok"

\* (mutant: a token amount of zero passes)
withdrawError_allowsZeroTokens(sender, creditAmount) ==
    IF ~nonReentrant THEN "ReentrancyDetected"
    ELSE IF ~(creditAmount > 0) THEN "InvalidAmount"
    ELSE IF ~(userCredits[sender] >= creditAmount) THEN "InsufficientCredits"
    ELSE IF ~(withdrawTokens(creditAmount) >= 0) THEN "TooSmall"
    ELSE IF ~(custody >= withdrawTokens(creditAmount))
    THEN "InsufficientReserve"
    ELSE "ok"

\* (mutant: the amount is not checked)
withdrawError_noAmountCheck(sender, creditAmount) ==
    IF ~nonReentrant THEN "ReentrancyDetected"
    ELSE IF ~(userCredits[sender] >= creditAmount) THEN "InsufficientCredits"
    ELSE IF ~(withdrawTokens(creditAmount) > 0) THEN "TooSmall"
    ELSE IF ~(custody >= withdrawTokens(creditAmount))
    THEN "InsufficientReserve"
    ELSE "ok"

\* (mutant: custody must exceed the tokens to pay)
withdrawError_reserveStrict(sender, creditAmount) ==
    IF ~nonReentrant THEN "ReentrancyDetected"
    ELSE IF ~(creditAmount > 0) THEN "InvalidAmount"
    ELSE IF ~(userCredits[sender] >= creditAmount) THEN "InsufficientCredits"
    ELSE IF ~(withdrawTokens(creditAmount) > 0) THEN "TooSmall"
    ELSE IF ~(custody > withdrawTokens(creditAmount))
    THEN "InsufficientReserve"
    ELSE "ok"

\* The checks withdraw makes before it debits, in order.
withdrawError(sender, creditAmount) ==
    IF ~nonReentrant THEN "ReentrancyDetected"
    ELSE IF ~(creditAmount > 0) THEN "InvalidAmount"
    ELSE IF ~(userCredits[sender] >= creditAmount) THEN "InsufficientCredits"
    ELSE IF ~(withdrawTokens(creditAmount) > 0) THEN "TooSmall"
    ELSE IF ~(custody >= withdrawTokens(creditAmount))
    THEN "InsufficientReserve"
    ELSE "ok"

\* (mutant: only the credits of the tokens paid are deducted)
withdraw_debitsWholeTokens(sender, creditAmount) ==
    IF withdrawError(sender, creditAmount) /= "ok"
    THEN Fail("withdraw", sender, withdrawError(sender, creditAmount))
    ELSE /\ _status' = ENTERED
         /\ userCredits' = [userCredits EXCEPT ![sender] =
                              @ - withdrawTokens(creditAmount) * CREDIT_RATE]
         /\ CallOut("withdraw", sender, creditAmount,
                    withdrawTokens(creditAmount))
         /\ UNCHANGED <<deployed, bullToken, _owner, tokenBal, events,
                        before, prev>>

\* (mutant: the token is called before the credits are deducted)
withdraw_callsBeforeDebit(sender, creditAmount) ==
    IF withdrawError(sender, creditAmount) /= "ok"
    THEN Fail("withdraw", sender, withdrawError(sender, creditAmount))
    ELSE /\ _status' = ENTERED
         /\ CallOut("withdraw", sender, creditAmount,
                    withdrawTokens(creditAmount))
         /\ UNCHANGED <<deployed, bullToken, userCredits, _owner, tokenBal,
                        events, before, prev>>

withdraw(sender, creditAmount) ==
    IF withdrawError(sender, creditAmount) /= "ok"
    THEN Fail("withdraw", sender, withdrawError(sender, creditAmount))
    ELSE /\ _status' = ENTERED
         /\ userCredits' = [userCredits EXCEPT ![sender] = @ - creditAmount]
         /\ CallOut("withdraw", sender, creditAmount,
                    withdrawTokens(creditAmount))
         /\ UNCHANGED <<deployed, bullToken, _owner, tokenBal, events,
                        before, prev>>

\* bullToken.transfer returned `ok`; the rest of withdraw runs.
withdrawReturn(ok) ==
    /\ frame /= NoFrame
    /\ frame.op = "withdraw"
    /\ ok => frame.moved
    /\ IF ~ok
       THEN Revert("TransferFailed")
       ELSE /\ events' = Append(events,
                    <<"Withdrawal", frame.sender, frame.amount, frame.tokens>>)
            /\ Return
            /\ UNCHANGED <<deployed, bullToken, userCredits, _owner,
                           tokenBal>>

\* -------------------------------------------------------------- the token
\* Inside transferFrom (deposit) or transfer (withdraw) the token moves the
\* asset, when the payer holds enough of it.
tokenMove ==
    /\ frame /= NoFrame
    /\ ~frame.moved
    /\ LET from == IF frame.op = "deposit" THEN frame.sender ELSE THIS
           to == IF frame.op = "deposit" THEN THIS ELSE frame.sender
       IN  /\ tokenBal[from] >= frame.tokens
           /\ tokenBal' = [tokenBal EXCEPT ![from] = @ - frame.tokens,
                                           ![to] = @ + frame.tokens]
    /\ frame' = [frame EXCEPT !.moved = TRUE]
    /\ result' = NoResult
    /\ UNCHANGED <<deployed, bullToken, userCredits, _owner, _status, events,
                   before, prev>>

\* ------------------------------------------------------------- getCredits
getCredits(user) == userCredits[user]

\* (mutant: the view carries the nonReentrant modifier)
getCreditsCall_guarded(sender, user) ==
    IF ~nonReentrant
    THEN Fail("getCredits", sender, "ReentrancyDetected")
    ELSE /\ result' = [op |-> "getCredits", sender |-> sender,
                       outcome |-> "ok", nested |-> (frame /= NoFrame),
                       rejected |-> 0, user |-> user,
                       value |-> getCredits(user)]
         /\ before' = Snap
         /\ UNCHANGED <<deployed, bullToken, userCredits, _owner, _status,
                        tokenBal, events, frame, prev>>

\* A call of the view: it returns what getCredits computes; being `view`
\* and without modifier, it writes nothing and is open at any time.
getCreditsCall(sender, user) ==
    /\ result' = [op |-> "getCredits", sender |-> sender, outcome |-> "ok",
                  nested |-> (frame /= NoFrame), rejected |-> 0,
                  user |-> user, value |-> getCredits(user)]
    /\ before' = Snap
    /\ UNCHANGED <<deployed, bullToken, userCredits, _owner, _status,
                   tokenBal, events, frame, prev>>

\* ---------------------------------------------------------------- Ownable
\* The functions ArcadeManager inherits from Ownable.
\* (mutant: the new owner is not checked)
transferOwnershipError_noNullCheck(sender, newOwner) ==
    IF ~onlyOwner(sender) THEN "AccessDenied"
    ELSE "ok"

transferOwnershipError(sender, newOwner) ==
    IF ~onlyOwner(sender) THEN "AccessDenied"
    ELSE IF ~(newOwner /= NULL) THEN "InvalidAddress"
    ELSE "ok"

transferOwnership(sender, newOwner) ==
    IF transferOwnershipError(sender, newOwner) /= "ok"
    THEN Fail("transferOwnership", sender,
              transferOwnershipError(sender, newOwner))
    ELSE /\ _owner' = newOwner
         /\ events' = Append(events,
                             <<"OwnershipTransferred", _owner, newOwner>>)
         /\ Done("transferOwnership", sender)
         /\ UNCHANGED <<deployed, bullToken, userCredits, _status, tokenBal>>

renounceOwnership(sender) ==
    IF ~onlyOwner(sender)
    THEN Fail("renounceOwnership", sender, "AccessDenied")
    ELSE /\ _owner' = NULL
         /\ events' = Append(events, <<"OwnershipTransferred", _owner, NULL>>)
         /\ Done("renounceOwnership", sender)
         /\ UNCHANGED <<deployed, bullToken, userCredits, _status, tokenBal>>

\* ---------------------------------------------------------- specification
\* A call is made at top level, or by the token inside an external call.
\* The model stops taking calls that would record more than MaxOps events
\* after the constructor's, or count more than MaxAttempts rejections.
InBounds ==
    /\ Len(events') + (IF frame' = NoFrame THEN 0 ELSE 1) <= 1 + MaxOps
    /\ frame' /= NoFrame => frame'.rejected <= MaxAttempts

Next ==
    \/ deployed /\ (\E s \in Addr, a \in TokenAmounts : deposit(s, a))
          /\ InBounds
    \/ deployed /\ (\E s \in Addr, a \in CreditAmounts : spendCredits(s, a))
          /\ InBounds
    \/ deployed
          /\ (\E s \in Addr, p \in Account, a \in AwardAmounts :
                awardWinnings(s, p, a))
          /\ InBounds
    \/ deployed /\ (\E s \in Addr, a \in CreditAmounts : withdraw(s, a))
          /\ InBounds
    \/ deployed /\ (\E s \in Addr, n \in Account : transferOwnership(s, n))
          /\ InBounds
    \/ deployed /\ (\E s \in Addr : renounceOwnership(s)) /\ InBounds
    \/ tokenMove
    \/ \E ok \in BOOLEAN : depositReturn(ok)
    \/ \E ok \in BOOLEAN : withdrawReturn(ok)

Spec == Init /\ [][Next]_vars

\* The same calls, and calls of the view getCredits among them.
NextReads ==
    \/ Next
    \/ deployed /\ (\E s \in Addr, u \in Account : getCreditsCall(s, u))

SpecReads == Init /\ [][NextReads]_vars

\* The same calls, where the token's transferFrom and transfer return: a
\* deposit or withdraw suspended at its external call is resumed.
SpecLive ==
    /\ Init
    /\ [][Next]_vars
    /\ WF_vars(\E ok \in BOOLEAN : depositReturn(ok))
    /\ WF_vars(\E ok \in BOOLEAN : withdrawReturn(ok))

\* The calls of deposit, spendCredits and withdraw alone: no awardWinnings,
\* and no token leaves the contract but by withdraw.
NextNoAward ==
    \/ deployed /\ (\E s \in Addr, a \in TokenAmounts : deposit(s, a))
          /\ InBounds
    \/ deployed /\ (\E s \in Addr, a \in CreditAmounts : spendCredits(s, a))
          /\ InBounds
    \/ deployed /\ (\E s \in Addr, a \in CreditAmounts : withdraw(s, a))
          /\ InBounds
    \/ tokenMove
    \/ \E ok \in BOOLEAN : depositReturn(ok)
    \/ \E ok \in BOOLEAN : withdrawReturn(ok)

SpecNoAward == Init /\ [][NextNoAward]_vars

\* Longer runs over fewer inputs: one more successful call than MaxOps, with
\* deposits of one token, awards of 150 credits and withdrawals of 100 or
\* 150 credits.
LongOps == MaxOps + 1

LongCredits == {100, 150}

InBoundsLong ==
    /\ Len(events') + (IF frame' = NoFrame THEN 0 ELSE 1) <= 1 + LongOps
    /\ frame' /= NoFrame => frame'.rejected <= MaxAttempts

NextLong ==
    \/ deployed /\ (\E s \in Addr : deposit(s, 1)) /\ InBoundsLong
    \/ deployed /\ (\E s \in Addr, p \in Addr : awardWinnings(s, p, 150))
          /\ InBoundsLong
    \/ deployed /\ (\E s \in Addr, a \in LongCredits : withdraw(s, a))
          /\ InBoundsLong
    \/ tokenMove
    \/ \E ok \in BOOLEAN : depositReturn(ok)
    \/ \E ok \in BOOLEAN : withdrawReturn(ok)

SpecLong == Init /\ [][NextLong]_vars

\* Amounts at the edge of uint256: the least number of tokens whose credits
\* are not representable, and the least award that leaves no room for the
\* credits of one token.
OverflowTokens == MAX_UINT \div CREDIT_RATE + 1

BigAward == MAX_UINT - CREDIT_RATE + 1

\* The contract deployed where the users hold OverflowTokens tokens each.
InitOverflow ==
    /\ \E _bullToken \in {NULL, TOKEN} : constructor(_bullToken, "a1")
    /\ tokenBal = [h \in Holder |-> IF h = THIS THEN 0 ELSE OverflowTokens]
    /\ before = [userCredits |-> [a \in Account |-> 0], _owner |-> NULL,
                 tokenBal |-> tokenBal, events |-> <<>>]
    /\ prev = Snap

\* Calls of deposit and awardWinnings with those amounts.
NextOverflow ==
    \/ deployed /\ (\E s \in Addr, a \in {1, OverflowTokens} : deposit(s, a))
          /\ InBounds
    \/ deployed /\ (\E s \in Addr, p \in Addr : awardWinnings(s, p, BigAward))
          /\ InBounds
    \/ tokenMove
    \/ \E ok \in BOOLEAN : depositReturn(ok)

SpecOverflow == InitOverflow /\ [][NextOverflow]_vars

\* ================================================================== claims
\* The last event recorded.
LastEvent == events[Len(events)]

\* The credits awardWinnings gave `player` in events (from + 1) .. to of `log`.
RECURSIVE AwardedIn(_, _, _, _)
AwardedIn(log, from, to, player) ==
    IF to <= from THEN 0
    ELSE AwardedIn(log, from, to - 1, player)
         + (IF log[to][1] = "WinningsAwarded" /\ log[to][2] = player
            THEN log[to][3] ELSE 0)

\* The credits awardWinnings gave `player` inside the transaction that just
\* completed, before the transaction's own event.
AwardedInside(player) ==
    AwardedIn(events, Len(before.events), Len(events) - 1, player)

\* A top-level deposit or withdraw has just run to its end.
Completed(op) ==
    /\ frame = NoFrame
    /\ result.op = op
    /\ result.outcome = "ok"

\* C1: a completed deposit(amount), amount > 0, leaves the caller's credits
\* greater by exactly amount * 100 (beside what awardWinnings gave the caller
\* while the token was being called), the contract's token balance greater by
\* exactly amount, and the caller's token balance smaller by exactly amount.
C1_DepositEffect ==
    Completed("deposit") =>
        LET s == result.sender
            amount == LastEvent[3]
        IN  /\ LastEvent[1] = "Deposit"
            /\ LastEvent[2] = s
            /\ amount > 0
            /\ userCredits[s]
                 = before.userCredits[s] + amount * 100 + AwardedInside(s)
            /\ tokenBal[THIS] = before.tokenBal[THIS] + amount
            /\ tokenBal[s] = before.tokenBal[s] - amount

\* a deposit of two tokens completed with nothing else inside it
C1_Witness ==
    /\ Completed("deposit")
    /\ LastEvent = <<"Deposit", result.sender, 2, 200>>
    /\ userCredits[result.sender] = before.userCredits[result.sender] + 200
    /\ tokenBal[THIS] = before.tokenBal[THIS] + 2

C3_RoundTrip ==
    [][(/\ frame.op = "withdraw"
        /\ frame' = NoFrame
        /\ result'.outcome = "ok"
        /\ Len(events') = Len(prev.events) + 2
        /\ events[Len(events)][1] = "Deposit"
        /\ events[Len(events)][2] = frame.sender
        /\ frame.amount = events[Len(events)][3] * 100
        /\ prev.userCredits[frame.sender] = 0)
       => (/\ userCredits'[frame.sender] = 0
           /\ tokenBal' = prev.tokenBal)]_vars

\* the round trip of two tokens has just completed
C3_Witness ==
    /\ Completed("withdraw")
    /\ Len(events) >= 3
    /\ LastEvent = <<"Withdrawal", result.sender, 200, 2>>
    /\ events[Len(events) - 1] = <<"Deposit", result.sender, 2, 200>>
    /\ userCredits[result.sender] = 0
    /\ tokenBal[THIS] = 0

\* The state a deposit of `amount` tokens by `s` leaves, made in state `b`.
AfterDeposit(b, s, amount) ==
    [userCredits |-> [b.userCredits EXCEPT ![s] = @ + amount * 100],
     _owner |-> b._owner,
     tokenBal |-> [b.tokenBal EXCEPT ![s] = @ - amount, ![THIS] = @ + amount],
     events |-> Append(b.events, <<"Deposit", s, amount, amount * 100>>)]

\* The state a withdrawal of `credits` by `s` leaves, made in state `b`.
AfterWithdraw(b, s, credits) ==
    [userCredits |-> [b.userCredits EXCEPT ![s] = @ - credits],
     _owner |-> b._owner,
     tokenBal |-> [b.tokenBal EXCEPT ![s] = @ + credits \div 100,
                                     ![THIS] = @ - credits \div 100],
     events |-> Append(b.events,
                       <<"Withdrawal", s, credits, credits \div 100>>)]

\* C4: a deposit or withdraw called while the token is being called by an
\* outer deposit or withdraw fails with ReentrancyDetected and changes
\* nothing; and when the outer call completes with no other call having
\* succeeded inside it, balances, custody, owner and log are exactly those of
\* the outer call made alone, however many attempts were rejected.
C4_ReentrantCallRejected ==
    /\ (result.nested /\ result.op \in {"deposit", "withdraw"}) =>
          /\ result.outcome = "ReentrancyDetected"
          /\ Snap = before
          /\ frame /= NoFrame
          /\ _status = ENTERED
    /\ (Completed("deposit") /\ Len(events) = Len(before.events) + 1) =>
          Snap = AfterDeposit(before, result.sender, LastEvent[3])
    /\ (Completed("withdraw") /\ Len(events) = Len(before.events) + 1) =>
          Snap = AfterWithdraw(before, result.sender, LastEvent[3])

\* an outer withdraw completed after two nested calls were rejected
C4_Witness ==
    /\ Completed("withdraw")
    /\ result.rejected = 2
    /\ Snap = AfterWithdraw(before, result.sender, 100)

\* C5: every credit balance is a non-negative integer within the word, and a
\* spendCredits or withdraw of more than the caller's balance is refused.
C5_BalancesNonNegative ==
    /\ \A a \in Account : userCredits[a] \in 0 .. MAX_UINT
    /\ \A s \in Addr :
       \A amount \in CreditAmounts \cup {userCredits[s] + 1} :
          amount > userCredits[s] =>
             /\ spendCreditsError(s, amount) /= "ok"
             /\ withdrawError(s, amount) /= "ok"

\* a debit larger than a positive balance has just been refused
C5_Witness ==
    /\ result.op \in {"spendCredits", "withdraw"}
    /\ result.outcome = "InsufficientCredits"
    /\ userCredits[result.sender] > 0
    /\ Snap = before

\* C6: the owner is never the null identity.
C6_OwnerNeverNull == deployed => _owner /= NULL

\* C7: transferOwnership is the only operation that changes the owner (a
\* reverting transaction undoing one apart).
C7_OnlyTransferOwnership ==
    [][_owner' /= _owner =>
          \/ \E s \in Addr, n \in Account : transferOwnership(s, n)
          \/ /\ frame /= NoFrame
             /\ frame' = NoFrame
             /\ result'.outcome /= "ok"]_vars

\* C8: awardWinnings by anyone but the owner fails with AccessDenied and
\* changes nothing; by the owner, for a non-null player and amount > 0 that
\* the balance can hold, it succeeds; and when it succeeds the player's
\* balance is greater by exactly amount, no other balance and no token
\* balance having changed.
C8_AwardWinnings ==
    /\ \A s \in Addr, p \in Account, a \in AwardAmounts \cup {500} :
          s /= _owner => awardWinningsError(s, p, a) = "AccessDenied"
    /\ \A p \in Addr, a \in {150, 500} :
          (_owner /= NULL /\ userCredits[p] + a <= MAX_UINT) =>
             awardWinningsError(_owner, p, a) = "ok"
    /\ (result.op = "awardWinnings" /\ result.outcome = "AccessDenied") =>
          /\ result.sender /= _owner
          /\ Snap = before
    /\ (result.op = "awardWinnings" /\ result.outcome = "ok") =>
          LET p == LastEvent[2]
              a == LastEvent[3]
          IN  /\ LastEvent[1] = "WinningsAwarded"
              /\ result.sender = before._owner
              /\ p /= NULL
              /\ a > 0
              /\ userCredits = [before.userCredits EXCEPT ![p] = @ + a]
              /\ tokenBal = before.tokenBal

\* the owner's award was recorded, then another caller's award was refused
C8_Witness ==
    /\ result.op = "awardWinnings"
    /\ result.outcome = "AccessDenied"
    /\ LastEvent[1] = "WinningsAwarded"
    /\ userCredits[LastEvent[2]] = LastEvent[3]

\* C9: when the token reports failure to a withdraw, the withdraw ends with
\* TransferFailed, the caller's debit is undone, no event is recorded, no
\* token balance has changed and the guard is Idle.
C9_WithdrawAllOrNothing ==
    [][withdrawReturn(FALSE) =>
          /\ result'.op = "withdraw"
          /\ result'.outcome = "TransferFailed"
          /\ userCredits' = frame.pre.userCredits
          /\ events' = frame.pre.events
          /\ tokenBal' = frame.pre.tokenBal
          /\ _owner' = frame.pre._owner
          /\ _status' = NOT_ENTERED
          /\ frame' = NoFrame]_vars

\* a withdraw has just failed on its transfer, the caller's credits intact
C9_Witness ==
    /\ frame = NoFrame
    /\ result.op = "withdraw"
    /\ result.outcome = "TransferFailed"
    /\ userCredits[result.sender] >= 100
    /\ Snap = before
    /\ _status = NOT_ENTERED

\* The errors of the specification's taxonomy.
Errors ==
    {"InvalidAmount", "InvalidAddress", "InsufficientCredits",
     "InsufficientReserve", "TooSmall", "AccessDenied", "TransferFailed",
     "ReentrancyDetected"}

\* C10: a call that ends in one of the errors leaves balances, token
\* balances, owner and event log as they were when it was made, and a
\* top-level one leaves the guard Idle.
C10_ErrorsChangeNothing ==
    result.outcome \in Errors =>
        /\ Snap = before
        /\ ~result.nested => (frame = NoFrame /\ _status = NOT_ENTERED)

\* after an earlier successful call, a deposit that had a nested call rejected
\* by the guard has just failed on its transfer
C10_Witness ==
    /\ result.op = "deposit"
    /\ result.outcome = "TransferFailed"
    /\ result.rejected > 0
    /\ Snap = before
    /\ Len(events) > 1

\* The events of the ledger's four operations; each carries the amount the
\* operation was called with as its third field.
LedgerEvents == {"Deposit", "CreditsSpent", "WinningsAwarded", "Withdrawal"}

\* C11: called at top level, deposit(0), spendCredits(0) and withdraw(0) fail
\* with InvalidAmount for every caller, and so does awardWinnings(player, 0)
\* called by the owner for a non-null player; a call that ends in
\* InvalidAmount has changed no balance and no token holding, and no
\* operation has ever been recorded with a zero amount.
C11_ZeroAmountRejected ==
    deployed =>
    /\ frame = NoFrame =>
          \A s \in Addr :
             /\ depositError(s, 0) = "InvalidAmount"
             /\ spendCreditsError(s, 0) = "InvalidAmount"
             /\ withdrawError(s, 0) = "InvalidAmount"
    /\ _owner /= NULL =>
          \A p \in Addr : awardWinningsError(_owner, p, 0) = "InvalidAmount"
    /\ result.outcome = "InvalidAmount" =>
          /\ userCredits = before.userCredits
          /\ tokenBal = before.tokenBal
          /\ Snap = before
    /\ \A i \in 1 .. Len(events) :
          events[i][1] \in LedgerEvents => events[i][3] > 0

\* a caller holding credits backed by custody has just had withdraw refused
\* for its amount
C11_Witness ==
    /\ result.op = "withdraw"
    /\ result.outcome = "InvalidAmount"
    /\ ~result.nested
    /\ userCredits[result.sender] >= 100
    /\ custody >= 1
    /\ Snap = before


\* C12: called at top level (inside an external call the guard refuses the
\* call first, C16), spendCredits(amount) and withdraw(amount) with amount
\* greater than the caller's balance fail with InsufficientCredits, for every
\* caller and every balance reached, amount = balance + 1 and a balance of
\* zero included; a call that ends in InsufficientCredits was a spendCredits
\* or a withdraw and has changed nothing.
C12_InsufficientCredits ==
    deployed =>
    /\ frame = NoFrame =>
          \A s \in Addr :
          \A amount \in CreditAmounts \cup {userCredits[s] + 1} :
             amount > userCredits[s] =>
                /\ spendCreditsError(s, amount) = "InsufficientCredits"
                /\ withdrawError(s, amount) = "InsufficientCredits"
    /\ result.outcome = "InsufficientCredits" =>
          /\ result.op \in {"spendCredits", "withdraw"}
          /\ userCredits[result.sender] = before.userCredits[result.sender]
          /\ Snap = before

\* an account never credited has just had withdraw refused while the
\* contract holds tokens
C12_Witness ==
    /\ result.op = "withdraw"
    /\ result.outcome = "InsufficientCredits"
    /\ userCredits[result.sender] = 0
    /\ custody >= 1
    /\ \A i \in 1 .. Len(events) : events[i][2] /= result.sender

\* C13 as stated: in every reachable state, for every caller, withdraw(50)
\* fails with TooSmall.
C13_Withdraw50AlwaysTooSmall ==
    deployed => \A s \in Addr : withdrawError(s, 50) = "TooSmall"

\* C13, amended: called at top level by a caller whose balance is at least
\* 50, withdraw(50) fails with TooSmall; with a smaller balance it fails with
\* InsufficientCredits; a withdraw that ends in TooSmall has changed nothing.
C13_Withdraw50TooSmall ==
    deployed =>
    /\ frame = NoFrame =>
          \A s \in Addr :
             withdrawError(s, 50) = IF userCredits[s] >= 50 THEN "TooSmall"
                                    ELSE "InsufficientCredits"
    /\ result.outcome = "TooSmall" =>
          /\ result.op = "withdraw"
          /\ userCredits[result.sender] >= 50
          /\ userCredits[result.sender] = before.userCredits[result.sender]
          /\ Snap = before

\* a caller holding 200 credits backed by two tokens has just had a withdraw
\* refused as too small
C13_Witness ==
    /\ result.op = "withdraw"
    /\ result.outcome = "TooSmall"
    /\ userCredits[result.sender] = 200
    /\ custody = 2
    /\ Snap = before


\* C14: a spendCredits(amount) that succeeded was called with amount > 0 by a
\* caller holding at least amount; it leaves the caller's balance smaller by
\* exactly amount, every other balance, every token holding (the custody
\* included) and the owner unchanged, and the guard Idle.
C14_SpendEffect ==
    (result.op = "spendCredits" /\ result.outcome = "ok") =>
        LET s == result.sender
            amount == LastEvent[3]
        IN  /\ LastEvent = <<"CreditsSpent", s, amount>>
            /\ amount > 0
            /\ before.userCredits[s] >= amount
            /\ userCredits = [before.userCredits EXCEPT ![s] = @ - amount]
            /\ tokenBal = before.tokenBal
            /\ custody = before.tokenBal[THIS]
            /\ _owner = before._owner
            /\ ~result.nested
            /\ _status = NOT_ENTERED

\* 50 of a caller's 200 credits have just been spent, the two tokens
\* deposited still in custody
C14_Witness ==
    /\ result.op = "spendCredits"
    /\ result.outcome = "ok"
    /\ LastEvent = <<"CreditsSpent", result.sender, 50>>
    /\ before.userCredits[result.sender] = 200
    /\ userCredits[result.sender] = 150
    /\ custody = 2


\* The functions that carry the nonReentrant modifier.
Guarded == {"deposit", "spendCredits", "withdraw"}

\* C15: whenever no guarded function is in progress the guard is Idle, so
\* after a top-level deposit, spendCredits or withdraw has returned, with
\* success or with any error, no top-level call to a guarded function is
\* refused with ReentrancyDetected; only a call made inside an external call
\* ever is.
C15_GuardIdleAtTopLevel ==
    deployed =>
    /\ frame = NoFrame => _status = NOT_ENTERED
    /\ frame = NoFrame =>
          \A s \in Addr :
             /\ \A a \in TokenAmounts :
                   depositError(s, a) /= "ReentrancyDetected"
             /\ \A a \in CreditAmounts :
                   /\ spendCreditsError(s, a) /= "ReentrancyDetected"
                   /\ withdrawError(s, a) /= "ReentrancyDetected"
    /\ result.outcome = "ReentrancyDetected" =>
          (result.nested /\ frame /= NoFrame)

\* a top-level withdraw has just aborted for want of custody, and the guard
\* is Idle
C15_Witness ==
    /\ frame = NoFrame
    /\ result.op = "withdraw"
    /\ result.outcome = "InsufficientReserve"
    /\ ~result.nested
    /\ _status = NOT_ENTERED

\* C16: the guard is Locked exactly while a deposit or a withdraw is at its
\* external call (spendCredits makes none); while it is Locked a call to any
\* of deposit, spendCredits and withdraw, by any caller and with any amount,
\* fails with ReentrancyDetected, and such a call has changed no balance and
\* nothing else.
C16_GuardShared ==
    deployed =>
    /\ (_status = ENTERED) <=> (frame /= NoFrame)
    /\ frame /= NoFrame => frame.op \in {"deposit", "withdraw"}
    /\ _status = ENTERED =>
          \A s \in Addr :
             /\ \A a \in TokenAmounts :
                   depositError(s, a) = "ReentrancyDetected"
             /\ \A a \in CreditAmounts :
                   /\ spendCreditsError(s, a) = "ReentrancyDetected"
                   /\ withdrawError(s, a) = "ReentrancyDetected"
    /\ (result.nested /\ result.op \in Guarded) =>
          /\ result.outcome = "ReentrancyDetected"
          /\ userCredits = before.userCredits
          /\ Snap = before

\* inside another caller's deposit, a spendCredits by a caller holding
\* credits has just been refused by the guard
C16_Witness ==
    /\ frame /= NoFrame
    /\ frame.op = "deposit"
    /\ result.nested
    /\ result.op = "spendCredits"
    /\ result.outcome = "ReentrancyDetected"
    /\ result.sender /= frame.sender
    /\ userCredits[result.sender] >= 50


\* The event each operation emits.
EventOf(op) ==
    CASE op = "deposit" -> "Deposit"
      [] op = "spendCredits" -> "CreditsSpent"
      [] op = "awardWinnings" -> "WinningsAwarded"
      [] op = "withdraw" -> "Withdrawal"
      [] OTHER -> "OwnershipTransferred"

\* C17: a call that succeeded has left the log as it was when the call was
\* made, extended by exactly one event of the call's own kind, its last;
\* before it come only the events of the calls that succeeded inside it while
\* the token was being called (each one event of an unguarded operation), and
\* a call made without an external call adds its one event and nothing else.
\* A call that failed, a withdraw or deposit aborted after its external call
\* included, has left the log exactly as it was when the call was made.
C17_EventsExactlyOnce ==
    /\ result.outcome = "ok" =>
          LET n == Len(before.events)
          IN  /\ Len(events) >= n + 1
              /\ SubSeq(events, 1, n) = before.events
              /\ LastEvent[1] = EventOf(result.op)
              /\ result.op \notin {"deposit", "withdraw"} =>
                    Len(events) = n + 1
              /\ \A i \in (n + 1) .. (Len(events) - 1) :
                    events[i][1] \in {"WinningsAwarded",
                                      "OwnershipTransferred"}
    /\ result.outcome \notin {"ok", "none"} => events = before.events

\* after an earlier successful call, a withdraw by a caller holding credits
\* has just aborted on its transfer: the log is the one of before the call
C17_Witness ==
    /\ result.op = "withdraw"
    /\ result.outcome = "TransferFailed"
    /\ events = before.events
    /\ prev.events /= events
    /\ \A i \in 1 .. Len(events) : events[i][1] /= "Withdrawal"
    /\ userCredits[result.sender] >= 100


\* C18: the event a successful call records carries the change the call
\* made.  Deposit(caller, t, t * 100): t tokens left the caller for the
\* contract and the caller gained t * 100 credits.  CreditsSpent(caller, a):
\* the caller lost a credits.  WinningsAwarded(p, a): p, and no one else,
\* gained a credits.  Withdrawal(caller, c, floor(c / 100)): the caller lost c
\* credits and floor(c / 100) tokens left the contract for the caller.
\* (Credits awarded to the caller while the token was being called come on
\* top of a deposit's or withdrawal's own change.)
C18_EventPayloads ==
    /\ Completed("deposit") =>
          LET s == result.sender
              t == before.tokenBal[s] - tokenBal[s]
          IN  /\ LastEvent = <<"Deposit", s, t, t * 100>>
              /\ tokenBal[THIS] - before.tokenBal[THIS] = t
              /\ userCredits[s] - before.userCredits[s] - AwardedInside(s)
                    = LastEvent[4]
    /\ (result.op = "spendCredits" /\ result.outcome = "ok") =>
          LET s == result.sender
          IN  LastEvent
                = <<"CreditsSpent", s, before.userCredits[s] - userCredits[s]>>
    /\ (result.op = "awardWinnings" /\ result.outcome = "ok") =>
          \E p \in Addr :
             /\ LastEvent = <<"WinningsAwarded", p,
                              userCredits[p] - before.userCredits[p]>>
             /\ \A q \in Account \ {p} :
                   userCredits[q] = before.userCredits[q]
    /\ Completed("withdraw") =>
          LET s == result.sender
              c == before.userCredits[s] - userCredits[s] + AwardedInside(s)
          IN  /\ LastEvent = <<"Withdrawal", s, c, c \div 100>>
              /\ tokenBal[s] - before.tokenBal[s] = LastEvent[4]
              /\ before.tokenBal[THIS] - tokenBal[THIS] = LastEvent[4]

\* the owner has just awarded 150 credits to the other account
C18_Witness ==
    /\ result.op = "awardWinnings"
    /\ result.outcome = "ok"
    /\ LastEvent[1] = "WinningsAwarded"
    /\ LastEvent[2] /= result.sender
    /\ LastEvent[3] = 150
    /\ userCredits[LastEvent[2]] = before.userCredits[LastEvent[2]] + 150


\* transferOwnership is refused with AccessDenied to every caller but the
\* owner and with InvalidAddress to the owner naming the null address, and
\* granted to the owner otherwise; a refused call has changed nothing, and a
\* granted one has made the address it named the owner, recorded the change,
\* and changed no balance and no token holding.
TransferOwnershipChecks ==
    /\ \A s \in Addr, n \in Account :
          s /= _owner => transferOwnershipError(s, n) = "AccessDenied"
    /\ _owner /= NULL =>
          /\ transferOwnershipError(_owner, NULL) = "InvalidAddress"
          /\ \A n \in Addr : transferOwnershipError(_owner, n) = "ok"
    /\ (result.op = "transferOwnership" /\ result.outcome /= "ok") =>
          /\ result.outcome \in {"AccessDenied", "InvalidAddress"}
          /\ result.outcome = "AccessDenied" <=> result.sender /= before._owner
          /\ _owner = before._owner
          /\ Snap = before
    /\ (result.op = "transferOwnership" /\ result.outcome = "ok") =>
          /\ result.sender = before._owner
          /\ _owner /= NULL
          /\ LastEvent = <<"OwnershipTransferred", before._owner, _owner>>
          /\ userCredits = before.userCredits
          /\ tokenBal = before.tokenBal
          /\ \A p \in Addr, a \in {150, 500} :
                userCredits[p] + a <= MAX_UINT =>
                   awardWinningsError(_owner, p, a) = "ok"

\* C19 as stated: beside the above, after every successful transfer the
\* previous owner's awardWinnings calls fail with AccessDenied.
C19_PreviousOwnerAlwaysDenied ==
    deployed =>
    /\ TransferOwnershipChecks
    /\ (result.op = "transferOwnership" /\ result.outcome = "ok") =>
          \A p \in Account, a \in AwardAmounts \cup {500} :
             awardWinningsError(before._owner, p, a) = "AccessDenied"

\* C19, amended: beside the above, after a successful transfer to an address
\* other than the previous owner, the previous owner's awardWinnings calls
\* fail with AccessDenied (a transfer to the owner itself succeeds and leaves
\* the owner the owner).
C19_TransferOwnership ==
    deployed =>
    /\ TransferOwnershipChecks
    /\ (result.op = "transferOwnership" /\ result.outcome = "ok"
          /\ _owner /= before._owner) =>
          \A p \in Account, a \in AwardAmounts \cup {500} :
             awardWinningsError(before._owner, p, a) = "AccessDenied"
    /\ (result.op = "transferOwnership" /\ result.outcome = "ok"
          /\ _owner = before._owner) =>
          \A p \in Addr : awardWinningsError(before._owner, p, 150) = "ok"

\* the owner has just handed the ownership to the other account, which held
\* credits and keeps them
C19_Witness ==
    /\ result.op = "transferOwnership"
    /\ result.outcome = "ok"
    /\ _owner /= before._owner
    /\ userCredits[_owner] > 0
    /\ awardWinningsError(before._owner, _owner, 150) = "AccessDenied"
    /\ awardWinningsError(_owner, before._owner, 150) = "ok"


\* C20: a construction with the null token address fails with InvalidAddress
\* and leaves no ledger to call; a construction with a token address yields a
\* ledger that refers to that token, is owned by the constructing account,
\* has its guard Idle and every credit balance zero, and has recorded the
\* ownership once.  The ledger exists exactly when its token reference is
\* not null.
C20_Construction ==
    /\ deployed <=> bullToken /= NULL
    /\ ~deployed =>
          (result.op = "constructor" /\ result.outcome = "InvalidAddress")
    /\ result.op = "constructor" =>
          /\ frame = NoFrame
          /\ _status = NOT_ENTERED
          /\ \A a \in Account : userCredits[a] = 0
          /\ custody = 0
          /\ IF result.outcome = "ok"
             THEN /\ deployed
                  /\ bullToken = TOKEN
                  /\ _owner = result.sender
                  /\ events = <<(<<"OwnershipTransferred", NULL,
                                   result.sender>>)>>
             ELSE /\ result.outcome = "InvalidAddress"
                  /\ ~deployed
                  /\ _owner = NULL
                  /\ events = <<>>

\* the ledger as constructed with the token's address
C20_Witness ==
    /\ result.op = "constructor"
    /\ result.outcome = "ok"
    /\ deployed
    /\ bullToken = TOKEN
    /\ _owner = "a1"
    /\ userCredits = [a \in Account |-> 0]


\* C21: in every state of the deployed ledger the token reference is the one
\* the constructor was given and the rate is 100: every deposit recorded has
\* credited 100 times its tokens and every withdrawal recorded has paid its
\* credits divided by 100, rounded down.
C21_RateAndTokenFixed ==
    /\ CREDIT_RATE = 100
    /\ bullToken = IF deployed THEN TOKEN ELSE NULL
    /\ \A i \in 1 .. Len(events) :
          /\ events[i][1] = "Deposit" => events[i][4] = events[i][3] * 100
          /\ events[i][1] = "Withdrawal" =>
                events[i][4] = events[i][3] \div 100

\* after a deposit and a withdrawal the ledger still refers to its token
C21_Witness ==
    /\ Completed("withdraw")
    /\ Len(events) = 3
    /\ events[2][1] = "Deposit"
    /\ events[3][1] = "Withdrawal"
    /\ bullToken = TOKEN


\* C22: called at top level, a withdraw that passes the amount, balance and
\* token-amount checks while the contract holds fewer tokens than
\* floor(creditAmount / 100) fails with InsufficientReserve; a call that ends
\* in InsufficientReserve was such a withdraw and has left the caller's
\* balance, the custody and everything else untouched.
C22_InsufficientReserve ==
    deployed =>
    /\ frame = NoFrame =>
          \A s \in Addr :
          \A c \in CreditAmounts \cup {userCredits[s]} :
             (/\ c > 0
              /\ userCredits[s] >= c
              /\ c \div 100 > 0
              /\ custody < c \div 100)
             => withdrawError(s, c) = "InsufficientReserve"
    /\ result.outcome = "InsufficientReserve" =>
          /\ result.op = "withdraw"
          /\ userCredits[result.sender] >= 100
          /\ custody < userCredits[result.sender] \div 100
          /\ userCredits[result.sender] = before.userCredits[result.sender]
          /\ custody = before.tokenBal[THIS]
          /\ Snap = before

\* a caller holding 250 credits has just had a withdraw refused while the
\* contract holds one token
C22_Witness ==
    /\ result.op = "withdraw"
    /\ result.outcome = "InsufficientReserve"
    /\ userCredits[result.sender] = 250
    /\ custody = 1
    /\ Snap = before

\* C23: when transferFrom reports failure to a deposit, the deposit ends
\* with TransferFailed: no balance has been increased, the custody and every
\* token holding are those of before the call, no Deposit event (and nothing
\* else) has been recorded, the owner is unchanged and the guard is Idle.
C23_DepositTransferFailed ==
    [][depositReturn(FALSE) =>
          /\ frame.amount > 0
          /\ result'.op = "deposit"
          /\ result'.outcome = "TransferFailed"
          /\ userCredits' = frame.pre.userCredits
          /\ tokenBal' = frame.pre.tokenBal
          /\ events' = frame.pre.events
          /\ _owner' = frame.pre._owner
          /\ _status' = NOT_ENTERED
          /\ frame' = NoFrame]_vars

\* a deposit by an account that holds its tokens and no credits has just
\* failed on its transfer
C23_Witness ==
    /\ frame = NoFrame
    /\ result.op = "deposit"
    /\ result.outcome = "TransferFailed"
    /\ userCredits[result.sender] = 0
    /\ tokenBal[result.sender] = MaxTokens
    /\ custody = 0
    /\ _status = NOT_ENTERED


\* The accounts the log shows to have been credited.
Credited ==
    {events[i][2] : i \in {j \in 1 .. Len(events) :
                              events[j][1] \in {"Deposit", "WinningsAwarded"}}}

\* C24: a call of getCredits(account) returns the account's current credit
\* balance, 0 for an account never credited; it succeeds also inside an
\* external call, while the guard is Locked, and leaves balances, owner,
\* token holdings, log, guard and the call in progress as they were.
C24_GetCreditsPureRead ==
    result.op = "getCredits" =>
        /\ result.outcome = "ok"
        /\ result.value = userCredits[result.user]
        /\ result.user \notin Credited => result.value = 0
        /\ Snap = before
        /\ bullToken = TOKEN
        /\ result.nested <=> frame /= NoFrame
        /\ result.nested <=> _status = ENTERED

\* inside a withdraw, while the guard is Locked, getCredits has just
\* returned the caller's debited balance
C24_Witness ==
    /\ result.op = "getCredits"
    /\ result.nested
    /\ _status = ENTERED
    /\ frame.op = "withdraw"
    /\ result.user = frame.sender
    /\ result.value = 50
    /\ frame.pre.userCredits[frame.sender] = 200


\* C25: while the token is being called by withdraw(creditAmount), from the
\* moment of the call on, the caller's balance is the one it had when it
\* called less the full creditAmount (credits the owner awards it meanwhile
\* apart); at the moment of the call no other balance has changed; and no
\* spendCredits or withdraw by the caller can succeed inside the call.
C25_EffectsBeforeInteractions ==
    (frame /= NoFrame /\ frame.op = "withdraw") =>
        LET s == frame.sender
            n == Len(frame.pre.events)
        IN  /\ frame.amount > 0
            /\ frame.pre.userCredits[s] >= frame.amount
            /\ userCredits[s]
                 = frame.pre.userCredits[s] - frame.amount
                   + AwardedIn(events, n, Len(events), s)
            /\ Len(events) = n =>
                  userCredits
                    = [frame.pre.userCredits EXCEPT ![s] = @ - frame.amount]
            /\ \A c \in CreditAmounts \cup {userCredits[s], frame.amount} :
                  /\ spendCreditsError(s, c) /= "ok"
                  /\ withdrawError(s, c) /= "ok"

\* the token has been called by a withdraw of 150 of the caller's 200
\* credits and has not moved the token yet; the caller's balance is 50 and
\* its second withdraw has just been refused
C25_Witness ==
    /\ frame /= NoFrame
    /\ frame.op = "withdraw"
    /\ ~frame.moved
    /\ frame.amount = 150
    /\ frame.pre.userCredits[frame.sender] = 200
    /\ userCredits[frame.sender] = 50
    /\ result.op = "withdraw"
    /\ result.sender = frame.sender
    /\ result.outcome = "ReentrancyDetected"


\* C26 as stated: while the guard is Locked, deposit, spendCredits and
\* withdraw called with amount 0 fail with InvalidAmount, and spendCredits
\* and withdraw called with an amount above the caller's balance fail with
\* InsufficientCredits.
C26_ValidationBeforeGuard ==
    (deployed /\ _status = ENTERED) =>
        \A s \in Addr :
           /\ depositError(s, 0) = "InvalidAmount"
           /\ spendCreditsError(s, 0) = "InvalidAmount"
           /\ withdrawError(s, 0) = "InvalidAmount"
           /\ spendCreditsError(s, userCredits[s] + 1) = "InsufficientCredits"
           /\ withdrawError(s, userCredits[s] + 1) = "InsufficientCredits"

\* C26, amended: deposit, spendCredits and withdraw check the guard before
\* their arguments: while the guard is Locked a call with amount 0, or with
\* an amount above the caller's balance for spendCredits and withdraw, fails
\* with ReentrancyDetected, not with InvalidAmount or InsufficientCredits;
\* these two errors are only ever returned to a top-level call, or, for
\* InvalidAmount, by awardWinnings.
C26_GuardBeforeValidation ==
    deployed =>
    /\ _status = ENTERED =>
          \A s \in Addr :
             /\ depositError(s, 0) = "ReentrancyDetected"
             /\ spendCreditsError(s, 0) = "ReentrancyDetected"
             /\ withdrawError(s, 0) = "ReentrancyDetected"
             /\ spendCreditsError(s, userCredits[s] + 1)
                  = "ReentrancyDetected"
             /\ withdrawError(s, userCredits[s] + 1) = "ReentrancyDetected"
    /\ (result.nested /\ result.op \in Guarded) =>
          result.outcome \notin {"InvalidAmount", "InsufficientCredits"}
    /\ (result.op \in Guarded
          /\ result.outcome \in {"InvalidAmount", "InsufficientCredits"})
       => (~result.nested /\ _status = NOT_ENTERED)

\* inside a deposit, a spendCredits by an account that holds no credits, for
\* which every amount is invalid, has just been refused by the guard
C26_Witness ==
    /\ frame /= NoFrame
    /\ frame.op = "deposit"
    /\ result.nested
    /\ result.op = "spendCredits"
    /\ result.outcome = "ReentrancyDetected"
    /\ userCredits[result.sender] = 0


\* The first of withdraw's four conditions that fails for creditAmount `c`
\* and caller `s`, in the order amount, balance, token amount, custody.
FirstWithdrawError(s, c) ==
    CASE c = 0 -> "InvalidAmount"
      [] c > 0 /\ userCredits[s] < c -> "InsufficientCredits"
      [] c > 0 /\ userCredits[s] >= c /\ c \div 100 = 0 -> "TooSmall"
      [] c > 0 /\ userCredits[s] >= c /\ c \div 100 > 0
           /\ custody < c \div 100 -> "InsufficientReserve"
      [] OTHER -> "ok"

\* C27: called at top level, withdraw reports the first failing condition in
\* the order InvalidAmount, InsufficientCredits, TooSmall,
\* InsufficientReserve, for every caller and amount: 50 with a balance below
\* 50 reports InsufficientCredits, 50 with a balance of 50 or more reports
\* TooSmall whatever the custody, an amount of a token or more above the
\* balance reports InsufficientCredits even when the custody is short.
C27_WithdrawCheckOrder ==
    (deployed /\ frame = NoFrame) =>
        \A s \in Addr :
           /\ \A c \in CreditAmounts \cup {userCredits[s], userCredits[s] + 1,
                                           userCredits[s] + 100} :
                 withdrawError(s, c) = FirstWithdrawError(s, c)
           /\ userCredits[s] < 50 =>
                 withdrawError(s, 50) = "InsufficientCredits"
           /\ userCredits[s] >= 50 => withdrawError(s, 50) = "TooSmall"
           /\ custody = 0 =>
                 withdrawError(s, userCredits[s] + 100) = "InsufficientCredits"

\* a caller holding credits that no token backs has just had withdraw(50)
\* (the only amount that can be too small) refused as too small
C27_Witness ==
    /\ result.op = "withdraw"
    /\ result.outcome = "TooSmall"
    /\ ~result.nested
    /\ userCredits[result.sender] = 150
    /\ custody = 0

\* C28: awardWinnings checks the caller, then the player, then the amount:
\* anyone but the owner gets AccessDenied whatever the player and amount;
\* the owner gets InvalidAddress for the null player whatever the amount,
\* and InvalidAmount for a real player and amount 0.  It does so inside an
\* external call as well as at top level.
C28_AwardCheckOrder ==
    deployed =>
    /\ \A s \in Addr, p \in Account, a \in AwardAmounts \cup {500} :
          s /= _owner => awardWinningsError(s, p, a) = "AccessDenied"
    /\ _owner /= NULL =>
          /\ \A a \in AwardAmounts \cup {500} :
                awardWinningsError(_owner, NULL, a) = "InvalidAddress"
          /\ \A p \in Addr : awardWinningsError(_owner, p, 0) = "InvalidAmount"
    /\ (result.op = "awardWinnings" /\ result.outcome = "AccessDenied") =>
          result.sender /= _owner
    /\ (result.op = "awardWinnings"
          /\ result.outcome \in {"InvalidAddress", "InvalidAmount"}) =>
          result.sender = _owner

\* the owner's award to the null address has just been refused
C28_Witness ==
    /\ result.op = "awardWinnings"
    /\ result.outcome = "InvalidAddress"
    /\ result.sender = _owner
    /\ Snap = before

\* C29: awardWinnings is not guarded.  While the guard is Locked the owner's
\* award of a positive amount to a non-null player is granted; an award that
\* succeeded inside an external call has credited the player exactly the
\* amount, changed nothing else, and left the guard Locked and the outer
\* call in progress.
C29_AwardNotGuarded ==
    deployed =>
    /\ (_status = ENTERED /\ _owner /= NULL) =>
          \A p \in Addr, a \in {150, 500} :
             userCredits[p] + a <= MAX_UINT =>
                awardWinningsError(_owner, p, a) = "ok"
    /\ (result.op = "awardWinnings" /\ result.nested) =>
          /\ result.outcome /= "ReentrancyDetected"
          /\ frame /= NoFrame
          /\ _status = ENTERED
    /\ (result.op = "awardWinnings" /\ result.nested
          /\ result.outcome = "ok") =>
          /\ LastEvent[1] = "WinningsAwarded"
          /\ userCredits = [before.userCredits EXCEPT
                              ![LastEvent[2]] = @ + LastEvent[3]]
          /\ LastEvent[3] > 0
          /\ tokenBal = before.tokenBal
          /\ _owner = before._owner

\* inside a deposit, while the guard is Locked, the owner has just awarded
\* 150 credits
C29_Witness ==
    /\ frame /= NoFrame
    /\ frame.op = "deposit"
    /\ _status = ENTERED
    /\ result.op = "awardWinnings"
    /\ result.nested
    /\ result.outcome = "ok"
    /\ LastEvent = <<"WinningsAwarded", LastEvent[2], 150>>
    /\ userCredits[LastEvent[2]] = before.userCredits[LastEvent[2]] + 150


\* The sum of the credit balances `credits` over the accounts `S`.
RECURSIVE SumOver(_, _)
SumOver(credits, S) ==
    IF S = {} THEN 0
    ELSE LET a == CHOOSE x \in S : TRUE
         IN  credits[a] + SumOver(credits, S \ {a})

\* What the tokens in custody are worth in credits beyond the credits owed,
\* in state `st`: 100 * custody - sum of all balances.
Surplus(st) == 100 * st.tokenBal[THIS] - SumOver(st.userCredits, Account)

\* The credits awardWinnings gave, to anyone, inside the transaction that
\* just completed.
AwardedInsideAll == SumOver([p \in Addr |-> AwardedInside(p)], Addr)

\* C30: a completed withdraw(creditAmount) has debited the caller the full
\* creditAmount and paid floor(creditAmount / 100) tokens, so that
\* 100 * custody - sum of all balances is greater than before the call by
\* exactly creditAmount mod 100 (less the credits awarded while the token was
\* being called): the remainder is in no one's balance.
C30_TruncationForfeitsRemainder ==
    Completed("withdraw") =>
        LET s == result.sender
            c == LastEvent[3]
        IN  /\ LastEvent[1] = "Withdrawal"
            /\ LastEvent[4] = c \div 100
            /\ before.tokenBal[THIS] - custody = c \div 100
            /\ userCredits[s] = before.userCredits[s] - c + AwardedInside(s)
            /\ Surplus(Snap) - Surplus(before) = (c % 100) - AwardedInsideAll
            /\ \A a \in Account \ {s} :
                  userCredits[a] = before.userCredits[a] + AwardedInside(a)

\* a withdraw of 150 of the caller's 200 credits has just completed: one
\* token paid, 50 credits left to the caller, and 50 credits' worth of
\* custody more than is owed
C30_Witness ==
    /\ Completed("withdraw")
    /\ LastEvent = <<"Withdrawal", result.sender, 150, 1>>
    /\ before.userCredits[result.sender] = 200
    /\ userCredits[result.sender] = 50
    /\ Surplus(before) = 0
    /\ Surplus(Snap) = 50


\* The functions that change state.
Mutating == {"deposit", "spendCredits", "awardWinnings", "withdraw",
             "transferOwnership"}

\* A top-level call has returned, with success or with an error, and the
\* guard is Idle.
ReturnedIdle ==
    /\ frame = NoFrame
    /\ ~result.nested
    /\ result.op \in Mutating
    /\ result.outcome /= "none"
    /\ _status = NOT_ENTERED

\* C31: provided the token's transferFrom and transfer return, every
\* top-level deposit, spendCredits, awardWinnings, withdraw and
\* transferOwnership returns with success or with an error, and the guard is
\* Idle when it has: a deposit or withdraw suspended at its external call
\* leads to that call having returned, a call that makes no external call
\* returns at once, and no state without a call in progress has the guard
\* Locked.
C31_InvocationsReturn ==
    /\ [](frame = NoFrame => _status = NOT_ENTERED)
    /\ []((result.op \in Mutating /\ ~result.nested) => ReturnedIdle)
    /\ (frame /= NoFrame)
          ~> (ReturnedIdle /\ result.op \in {"deposit", "withdraw"})

\* a withdraw whose callback tried to reenter has returned with success, and
\* the guard is Idle
C31_Witness ==
    /\ ReturnedIdle
    /\ result.op = "withdraw"
    /\ result.outcome = "ok"
    /\ result.rejected > 0


\* C32: a call rejected with ReentrancyDetected leaves the guard of the
\* suspended deposit or withdraw Locked: after one rejection, or any number
\* of them, the outer call is still in progress, the guard is Locked and a
\* further call to deposit, spendCredits or withdraw is rejected too; the
\* guard is Idle again once the outer call, whose callback was rejected, has
\* returned.
C32_RejectionKeepsGuard ==
    deployed =>
    /\ result.outcome = "ReentrancyDetected" =>
          /\ frame /= NoFrame
          /\ frame.rejected >= 1
    /\ (frame /= NoFrame /\ frame.rejected >= 1) =>
          /\ _status = ENTERED
          /\ \A s \in Addr :
                /\ \A a \in TokenAmounts :
                      depositError(s, a) = "ReentrancyDetected"
                /\ \A a \in CreditAmounts :
                      /\ spendCreditsError(s, a) = "ReentrancyDetected"
                      /\ withdrawError(s, a) = "ReentrancyDetected"
    /\ (frame = NoFrame /\ result.rejected >= 1) =>
          /\ result.op \in {"deposit", "withdraw"}
          /\ _status = NOT_ENTERED

\* inside one deposit a second reentrant call has just been rejected, and
\* the guard is still Locked
C32_Witness ==
    /\ frame /= NoFrame
    /\ frame.op = "deposit"
    /\ frame.rejected = 2
    /\ result.nested
    /\ result.outcome = "ReentrancyDetected"
    /\ _status = ENTERED


\* C33: where only deposit, spendCredits and withdraw are called, the sum of
\* all credit balances is at most 100 times the tokens in custody in every
\* state, also while a deposit or withdraw is at its external call; so no
\* withdraw fails with InsufficientReserve, and none that passes the
\* balance and TooSmall checks would.
C33_BackedWithoutAwards ==
    deployed =>
    /\ SumOver(userCredits, Account) <= CREDIT_RATE * custody
    /\ result.outcome /= "InsufficientReserve"
    /\ frame = NoFrame =>
          \A s \in Addr, c \in CreditAmounts :
             withdrawError(s, c) /= "InsufficientReserve"

\* after a deposit of two tokens the caller has spent 50 credits: a
\* withdraw of the remaining 150 passes every check, and custody is worth 50
\* credits more than is owed
C33_Witness ==
    /\ frame = NoFrame
    /\ result.op = "spendCredits"
    /\ result.outcome = "ok"
    /\ userCredits[result.sender] = 150
    /\ withdrawError(result.sender, 150) = "ok"
    /\ Surplus(Snap) = 50


\* An event of kind `kind` naming `account` is in the log.
Logged(kind, account) ==
    \E i \in 1..Len(events) : events[i][1] = kind /\ events[i][2] = account

\* C34: awardWinnings creates credits and no custody: a successful award
\* lowers 100 * custody - sum of all balances by exactly the amount awarded,
\* custody unchanged; and a withdraw fails with InsufficientReserve only
\* where the balances exceed 100 * custody and an award is in the log. (The
\* state the claim describes, a depositor's withdraw failing after an awarded
\* account withdrew, is reached: C34_Witness.)
C34_AwardsUnbacked ==
    deployed =>
    /\ (result.op = "awardWinnings" /\ result.outcome = "ok") =>
          /\ LastEvent[1] = "WinningsAwarded"
          /\ custody = before.tokenBal[THIS]
          /\ Surplus(Snap) = Surplus(before) - LastEvent[3]
    /\ result.outcome = "InsufficientReserve" =>
          /\ Surplus(Snap) < 0
          /\ \E p \in Addr : Logged("WinningsAwarded", p)

\* the caller holds the 100 credits of its own deposit of one token, was
\* never awarded and never withdrew; another account was awarded credits and
\* then withdrew the token in custody; the caller's withdraw has just failed
\* with InsufficientReserve, the balances exceeding 100 * custody
C34_Witness ==
    /\ frame = NoFrame
    /\ result.op = "withdraw"
    /\ result.outcome = "InsufficientReserve"
    /\ LET s == result.sender
       IN  /\ userCredits[s] = 100
           /\ Logged("Deposit", s)
           /\ ~Logged("WinningsAwarded", s)
           /\ ~Logged("Withdrawal", s)
           /\ ~Logged("CreditsSpent", s)
           /\ \E p \in Addr \ {s} :
                 /\ ~Logged("Deposit", p)
                 /\ Logged("WinningsAwarded", p)
                 /\ Logged("Withdrawal", p)
    /\ custody = 0
    /\ SumOver(userCredits, Account) > CREDIT_RATE * custody


\* C35: what each state-changing function leaves alone. A completed deposit
\* or withdraw has changed no balance but the caller's (beside what
\* awardWinnings gave inside it) and has changed custody by + amount and by
\* - floor(creditAmount / 100); a spendCredits has changed no balance but the
\* caller's and an awardWinnings none but the player's; spendCredits,
\* awardWinnings, transferOwnership and renounceOwnership, and every call
\* that failed, have moved no token.
C35_Frames ==
    /\ Completed("deposit") =>
          /\ \A a \in Account \ {result.sender} :
                userCredits[a] = before.userCredits[a] + AwardedInside(a)
          /\ custody = before.tokenBal[THIS] + LastEvent[3]
    /\ Completed("withdraw") =>
          /\ \A a \in Account \ {result.sender} :
                userCredits[a] = before.userCredits[a] + AwardedInside(a)
          /\ custody = before.tokenBal[THIS] - (LastEvent[3] \div CREDIT_RATE)
    /\ (result.op = "spendCredits" /\ result.outcome = "ok") =>
          /\ \A a \in Account \ {result.sender} :
                userCredits[a] = before.userCredits[a]
          /\ tokenBal = before.tokenBal
    /\ (result.op = "awardWinnings" /\ result.outcome = "ok") =>
          /\ \A a \in Account \ {LastEvent[2]} :
                userCredits[a] = before.userCredits[a]
          /\ tokenBal = before.tokenBal
    /\ (result.op \in {"transferOwnership", "renounceOwnership"}
          /\ result.outcome = "ok") =>
          /\ userCredits = before.userCredits
          /\ tokenBal = before.tokenBal
    /\ result.outcome \notin {"ok", "none"} => tokenBal = before.tokenBal

\* a deposit has completed while another account held 150 credits, and that
\* account still holds exactly 150
C35_Witness ==
    /\ Completed("deposit")
    /\ \E a \in Addr \ {result.sender} :
          /\ before.userCredits[a] = 150
          /\ userCredits[a] = 150
    /\ custody = before.tokenBal[THIS] + LastEvent[3]
    /\ userCredits[result.sender] > before.userCredits[result.sender]


\* C36: credit arithmetic is checked, not modular. No balance ever exceeds
\* MAX_UINT; a completed deposit has credited exactly amount * 100 and a
\* successful award exactly its amount, neither reduced modulo 2^UintWidth;
\* an award that would take the player's balance above MAX_UINT fails; and a
\* call that fails on overflow has changed nothing: balances, log and token
\* holdings are as when it was made (the tokens transferFrom pulled are back
\* with the caller), and the guard is Idle.
C36_NoWrap ==
    deployed =>
    /\ \A a \in Account : userCredits[a] \in 0..MAX_UINT
    /\ Completed("deposit") =>
          /\ LastEvent[4] = LastEvent[3] * CREDIT_RATE
          /\ userCredits[result.sender] =
                before.userCredits[result.sender]
                + LastEvent[3] * CREDIT_RATE + AwardedInside(result.sender)
    /\ (result.op = "awardWinnings" /\ result.outcome = "ok") =>
          userCredits[LastEvent[2]] =
             before.userCredits[LastEvent[2]] + LastEvent[3]
    /\ \A s \in Addr, p \in Addr :
          (onlyOwner(s) /\ userCredits[p] + BigAward > MAX_UINT) =>
             awardWinningsError(s, p, BigAward) = "Panic"
    /\ result.outcome = "Panic" =>
          /\ Snap = before
          /\ frame = NoFrame => _status = NOT_ENTERED

\* a deposit of one token by a caller holding BigAward credits has aborted
\* on overflow: the caller has its tokens and its balance as before, and
\* nothing is in custody
C36_Witness ==
    /\ frame = NoFrame
    /\ result.op = "deposit"
    /\ result.outcome = "Panic"
    /\ userCredits[result.sender] = BigAward
    /\ tokenBal[result.sender] = OverflowTokens
    /\ custody = 0
    /\ _status = NOT_ENTERED


\* C37: no update is lost across the external call. While a deposit or
\* withdraw is at its external call the caller's balance is the balance at
\* the call, less the withdrawal's debit, plus what awardWinnings has given
\* the caller since; and when a deposit(t) or withdraw(c) inside which the
\* caller was awarded x credits has completed, the caller's balance is the
\* balance before the call + 100 * t + x, or - c + x.
C37_NoLostUpdate ==
    /\ frame /= NoFrame =>
          userCredits[frame.sender] =
             frame.pre.userCredits[frame.sender]
             - (IF frame.op = "withdraw" THEN frame.amount ELSE 0)
             + AwardedIn(events, Len(frame.pre.events), Len(events),
                         frame.sender)
    /\ (Completed("deposit") /\ AwardedInside(result.sender) > 0) =>
          userCredits[result.sender] =
             before.userCredits[result.sender]
             + CREDIT_RATE * LastEvent[3] + AwardedInside(result.sender)
    /\ (Completed("withdraw") /\ AwardedInside(result.sender) > 0) =>
          userCredits[result.sender] =
             before.userCredits[result.sender]
             - LastEvent[3] + AwardedInside(result.sender)

\* a withdraw of 100 credits, inside whose external call the caller was
\* awarded 150, has completed: the caller holds 50 more than before
C37_Witness ==
    /\ Completed("withdraw")
    /\ LastEvent[3] = 100
    /\ AwardedInside(result.sender) = 150
    /\ userCredits[result.sender] = before.userCredits[result.sender] + 50


=============================================================================
